---- MODULE Spec2Model ----
(***************************************************************************)
(* Model of the shell-like command line tokenizer of package args          *)
(* (src/args.go).  Runes are modelled by their code points, strings by     *)
(* sequences of code points, so that a delimiter is int(c) as in the code. *)
(***************************************************************************)
EXTENDS Integers, Sequences, FiniteSets, TLC

VARIABLES
    in,               \* Scanner.in: the unread input of the Scanner
    InfieldBrackets,  \* Scanner.InfieldBrackets
    hist,             \* the NextToken calls made so far, with what they returned
    scan,             \* the locals of the NextToken call that is running
    rd,               \* the runes the running NextToken call has read
    line,             \* the line handed to GetArgs / GetArgsN / ParseArgs
    opt,              \* whether the InfieldBrackets() option is passed
    op,               \* the package function or method called last
    argN,             \* the n of the last GetArgsN call
    argName,          \* the name of the last GetIntOption call
    argDef,           \* the def of the last GetIntOption call
    retArgs,          \* the []string returned by the last call
    retInt,           \* the int returned by the last call
    retRest,          \* the rest string returned by the last call
    retErr,           \* the error returned by the last call
    parsed            \* the Args value returned by the last ParseArgs

vars == <<in, InfieldBrackets, hist, scan, rd, line, opt, op, argN, argName,
          argDef, retArgs, retInt, retRest, retErr, parsed>>

scanVars == <<in, InfieldBrackets, hist, scan, rd>>
argVars == <<line, opt, op, argN, argName, argDef, retArgs, retInt, retRest,
             retErr, parsed>>

----------------------------------------------------------------------------
(* Bounds of the model. *)

MaxLen == 4       \* longest input read by a Scanner
MaxEOF == 2       \* NextToken calls made after the first end-of-stream
MaxLine == 4      \* longest line handed to the package functions
MaxN == 3         \* largest n handed to GetArgsN

----------------------------------------------------------------------------
(* Constants of the package. *)

ESCAPE_CHAR == 92                      \* '\\'
OPTION_CHAR == 45                      \* '-'
QUOTE_CHARS == {96, 39, 34}            \* "`'\""
SYMBOL_CHARS == {124, 62, 60, 35, 123, 40, 91}   \* `|><#{([`
NO_QUOTE == 65533                      \* unicode.ReplacementChar
EQUALS_CHAR == 61                      \* "=" of ParseArgs

\* BRACKETS: opening bracket -> expected closing bracket
BRACKETS == (123 :> 125) @@ (91 :> 93) @@ (40 :> 41)

\* unicode.IsSpace
IsSpace(c) ==
    c \in {9, 10, 11, 12, 13, 32, 133, 160, 5760, 8232, 8233, 8239, 8287, 12288}
    \/ (c >= 8192 /\ c <= 8202)

\* io.EOF and the nil error
EOF == "EOF"
Nil == "nil"

----------------------------------------------------------------------------
(* Scanner.NextToken *)

\* the locals of NextToken on entry; pc is "scan" while the loop reads,
\* "copy" at the io.Copy of the symbol branch, "ret" at a return statement
ScanInit ==
    [buf |-> <<>>, first |-> TRUE, escape |-> FALSE, quote |-> NO_QUOTE,
     brackets |-> <<>>, delim |-> 0, pc |-> "scan"]

\* StepNoBrackets without the test of quote == NO_QUOTE: whitespace ends a
\* quoted token too
StepNoBrackets_SpaceEndsQuoted(st, c, infield) ==
    IF IsSpace(c)
    THEN [st EXCEPT !.delim = c, !.pc = "ret"]
    ELSE IF c = st.quote
    THEN [st EXCEPT !.quote = NO_QUOTE, !.delim = c, !.pc = "ret"]
    ELSE IF infield /\ c \in DOMAIN BRACKETS
    THEN [st EXCEPT !.brackets = Append(@, BRACKETS[c]), !.buf = Append(@, c)]
    ELSE [st EXCEPT !.buf = Append(@, c)]

\* StepNoBrackets without the test of scanner.InfieldBrackets
StepNoBrackets_AlwaysInfield(st, c, infield) ==
    IF IsSpace(c) /\ st.quote = NO_QUOTE
    THEN [st EXCEPT !.delim = c, !.pc = "ret"]
    ELSE IF c = st.quote
    THEN [st EXCEPT !.quote = NO_QUOTE, !.delim = c, !.pc = "ret"]
    ELSE IF c \in DOMAIN BRACKETS
    THEN [st EXCEPT !.brackets = Append(@, BRACKETS[c]), !.buf = Append(@, c)]
    ELSE [st EXCEPT !.buf = Append(@, c)]

\* StepNoBrackets without the InfieldBrackets branch
StepNoBrackets_NoInfield(st, c, infield) ==
    IF IsSpace(c) /\ st.quote = NO_QUOTE
    THEN [st EXCEPT !.delim = c, !.pc = "ret"]
    ELSE IF c = st.quote
    THEN [st EXCEPT !.quote = NO_QUOTE, !.delim = c, !.pc = "ret"]
    ELSE [st EXCEPT !.buf = Append(@, c)]

\* the part of the loop body that runs when len(brackets) == 0
StepNoBrackets(st, c, infield) ==
    IF IsSpace(c) /\ st.quote = NO_QUOTE
    THEN [st EXCEPT !.delim = c, !.pc = "ret"]
    ELSE IF c = st.quote
    THEN [st EXCEPT !.quote = NO_QUOTE, !.delim = c, !.pc = "ret"]
    ELSE IF infield /\ c \in DOMAIN BRACKETS
    THEN [st EXCEPT !.brackets = Append(@, BRACKETS[c]), !.buf = Append(@, c)]
    ELSE [st EXCEPT !.buf = Append(@, c)]

\* StepInBrackets without the push of a nested opening bracket
StepInBrackets_NoNesting(st, c) ==
    LET last == Len(st.brackets)
        app == [st EXCEPT !.buf = Append(@, c)]
    IN  IF st.quote = NO_QUOTE
        THEN IF c = st.brackets[last]
             THEN IF last = 1
                  THEN [app EXCEPT !.brackets = <<>>, !.pc = "ret"]
                  ELSE [app EXCEPT !.brackets = SubSeq(@, 1, last - 1)]
             ELSE IF c \in QUOTE_CHARS
             THEN [app EXCEPT !.quote = c]
             ELSE app
        ELSE IF c = st.quote
        THEN [app EXCEPT !.quote = NO_QUOTE]
        ELSE app

\* the part of the loop body that runs when len(brackets) > 0
StepInBrackets(st, c) ==
    LET last == Len(st.brackets)
        app == [st EXCEPT !.buf = Append(@, c)]
    IN  IF st.quote = NO_QUOTE
        THEN IF c = st.brackets[last]
             THEN IF last = 1
                  THEN [app EXCEPT !.brackets = <<>>, !.pc = "ret"]
                  ELSE [app EXCEPT !.brackets = SubSeq(@, 1, last - 1)]
             ELSE IF c \in QUOTE_CHARS
             THEN [app EXCEPT !.quote = c]
             ELSE IF c \in DOMAIN BRACKETS
             THEN [app EXCEPT !.brackets = Append(@, BRACKETS[c])]
             ELSE app
        ELSE IF c = st.quote
        THEN [app EXCEPT !.quote = NO_QUOTE]
        ELSE app

\* the rest of the loop body once the escape checks are passed
StepPlain(st, c, infield) ==
    IF Len(st.brackets) = 0
    THEN StepNoBrackets(st, c, infield)
    ELSE StepInBrackets(st, c)

\* ScanStep that keeps the text of a bracket region verbatim: the escape
\* checks are skipped while the bracket stack is not empty
ScanStep_VerbatimInBrackets(st, c, infield) ==
    IF Len(st.brackets) > 0
    THEN StepInBrackets(st, c)
    ELSE IF c = ESCAPE_CHAR /\ ~st.escape
    THEN [st EXCEPT !.escape = TRUE, !.first = FALSE]
    ELSE IF st.escape
    THEN [st EXCEPT !.escape = FALSE, !.buf = Append(@, c)]
    ELSE IF st.first
    THEN IF IsSpace(c)
         THEN st
         ELSE LET nf == [st EXCEPT !.first = FALSE]
              IN  IF c \in QUOTE_CHARS
                  THEN [nf EXCEPT !.quote = c]
                  ELSE IF c \in DOMAIN BRACKETS
                  THEN [nf EXCEPT !.delim = c,
                                  !.brackets = Append(@, BRACKETS[c]),
                                  !.buf = Append(@, c)]
                  ELSE IF c \in SYMBOL_CHARS
                  THEN [nf EXCEPT !.buf = Append(@, c), !.pc = "copy"]
                  ELSE StepPlain(nf, c, infield)
    ELSE StepPlain(st, c, infield)

\* ScanStep without the delim = int(c) of the bracket that starts a token
ScanStep_NoBracketDelim(st, c, infield) ==
    IF c = ESCAPE_CHAR /\ ~st.escape
    THEN [st EXCEPT !.escape = TRUE, !.first = FALSE]
    ELSE IF st.escape
    THEN [st EXCEPT !.escape = FALSE, !.buf = Append(@, c)]
    ELSE IF st.first
    THEN IF IsSpace(c)
         THEN st
         ELSE LET nf == [st EXCEPT !.first = FALSE]
              IN  IF c \in QUOTE_CHARS
                  THEN [nf EXCEPT !.quote = c]
                  ELSE IF c \in DOMAIN BRACKETS
                  THEN [nf EXCEPT !.brackets = Append(@, BRACKETS[c]),
                                  !.buf = Append(@, c)]
                  ELSE IF c \in SYMBOL_CHARS
                  THEN [nf EXCEPT !.buf = Append(@, c), !.pc = "copy"]
                  ELSE StepPlain(nf, c, infield)
    ELSE StepPlain(st, c, infield)

\* one iteration of the loop of NextToken for a rune c that was read
ScanStep(st, c, infield) ==
    IF c = ESCAPE_CHAR /\ ~st.escape
    THEN [st EXCEPT !.escape = TRUE, !.first = FALSE]
    ELSE IF st.escape
    THEN [st EXCEPT !.escape = FALSE, !.buf = Append(@, c)]
    ELSE IF st.first
    THEN IF IsSpace(c)
         THEN st
         ELSE LET nf == [st EXCEPT !.first = FALSE]
              IN  IF c \in QUOTE_CHARS
                  THEN [nf EXCEPT !.quote = c]
                  ELSE IF c \in DOMAIN BRACKETS
                  THEN [nf EXCEPT !.delim = c,
                                  !.brackets = Append(@, BRACKETS[c]),
                                  !.buf = Append(@, c)]
                  ELSE IF c \in SYMBOL_CHARS
                  THEN [nf EXCEPT !.buf = Append(@, c), !.pc = "copy"]
                  ELSE StepPlain(nf, c, infield)
    ELSE StepPlain(st, c, infield)

\* AtEOF that reports a quote or a bracket region left open as an error
AtEOF_ErrorWhenOpen(st) ==
    IF st.quote # NO_QUOTE \/ Len(st.brackets) > 0
    THEN [s |-> <<>>, delim |-> st.delim, err |-> "unterminated", in |-> <<>>]
    ELSE IF Len(st.buf) > 0
    THEN [s |-> st.buf, delim |-> st.delim, err |-> Nil, in |-> <<>>]
    ELSE [s |-> <<>>, delim |-> st.delim, err |-> EOF, in |-> <<>>]

\* AtEOF without the check of buf.Len(): the buffer is returned with a nil
\* error also when it is empty
AtEOF_NoLenCheck(st) ==
    [s |-> st.buf, delim |-> st.delim, err |-> Nil, in |-> <<>>]

\* the branch taken when ReadRune fails with io.EOF
AtEOF(st) ==
    IF Len(st.buf) > 0
    THEN [s |-> st.buf, delim |-> st.delim, err |-> Nil, in |-> <<>>]
    ELSE [s |-> <<>>, delim |-> st.delim, err |-> EOF, in |-> <<>>]

\* CopyRest without the io.Copy: the symbol alone is returned
CopyRest_NoCopy(st, input) ==
    [s |-> st.buf, delim |-> st.delim, err |-> Nil, in |-> input]

\* the symbol branch: io.Copy(buf, scanner.in) drains the input into buf
CopyRest(st, input) ==
    [s |-> st.buf \o input, delim |-> st.delim, err |-> Nil, in |-> <<>>]

\* the loop of NextToken over the unread input; the result is the returned
\* (s, delim, err) and the input left unread
RECURSIVE scanLoop(_, _, _)
scanLoop(input, st, infield) ==
    IF st.pc = "ret"
    THEN [s |-> st.buf, delim |-> st.delim, err |-> Nil, in |-> input]
    ELSE IF st.pc = "copy"
    THEN CopyRest(st, input)
    ELSE IF input = <<>>
    THEN AtEOF(st)
    ELSE scanLoop(Tail(input), ScanStep(st, Head(input), infield), infield)

\* NextTokenOf that scans a fresh reader over the same text on every call:
\* nothing is consumed
NextTokenOf_Reread(input, infield) ==
    [scanLoop(input, ScanInit, infield) EXCEPT !.in = input]

NextTokenOf(input, infield) == scanLoop(input, ScanInit, infield)

----------------------------------------------------------------------------
(* The inputs of the model. *)

\* runes of the scanner inputs: space, backslash, two quotes, two bracket
\* pairs, a symbol, a letter and the replacement character
Alphabet == {32, 92, 34, 39, 123, 125, 91, 93, 35, 97, 65533}

RECURSIVE StringsUpTo(_, _)
StringsUpTo(A, n) ==
    IF n = 0 THEN {<<>>}
    ELSE LET S == StringsUpTo(A, n - 1)
         IN  S \cup {Append(s, c) : s \in {t \in S : Len(t) = n - 1}, c \in A}

----------------------------------------------------------------------------
(* The Scanner as a state machine. *)

ArgsIdle ==
    /\ line = <<>>
    /\ opt = FALSE
    /\ op = "none"
    /\ argN = 0
    /\ argName = <<>>
    /\ argDef = 0
    /\ retArgs = <<>>
    /\ retInt = 0
    /\ retRest = <<>>
    /\ retErr = Nil
    /\ parsed = [Options |-> <<>>, Arguments |-> <<>>]

\* no NextToken call is running
ScanIdle == [ScanInit EXCEPT !.pc = "idle"]

\* NewScannerString(s), with InfieldBrackets set or not before scanning
Init ==
    /\ in \in StringsUpTo(Alphabet, MaxLen)
    /\ InfieldBrackets \in BOOLEAN
    /\ hist = <<>>
    /\ scan = ScanIdle
    /\ rd = <<>>
    /\ ArgsIdle

EOFCalls == Cardinality({i \in 1..Len(hist) : hist[i].err = EOF})

NextToken ==
    /\ EOFCalls < MaxEOF
    /\ LET r == NextTokenOf(in, InfieldBrackets)
       IN  /\ in' = r.in
           /\ hist' = Append(hist, [pre |-> in, s |-> r.s, delim |-> r.delim,
                                    err |-> r.err])
    /\ UNCHANGED <<InfieldBrackets, scan, rd, argVars>>

Next == NextToken

Spec == Init /\ [][Next]_vars

\* runes of the inputs that are drained: space, backslash, a quote, a
\* bracket pair, a symbol and a letter
DrainAlphabet == {32, 92, 34, 91, 93, 35, 97}

\* the longest input that is drained
MaxDrain == 3

InitDrain ==
    /\ in \in StringsUpTo(DrainAlphabet, MaxDrain)
    /\ InfieldBrackets \in BOOLEAN
    /\ hist = <<>>
    /\ scan = ScanIdle
    /\ rd = <<>>
    /\ ArgsIdle

\* the caller that drains the Scanner: it goes on calling NextToken
SpecDrain == InitDrain /\ [][Next]_vars /\ WF_vars(NextToken)

----------------------------------------------------------------------------
(* NextToken rune by rune: the Scanner with the locals of the running call. *)

InitScan ==
    /\ in \in StringsUpTo(Alphabet, MaxLen)
    /\ InfieldBrackets \in BOOLEAN
    /\ hist = <<>>
    /\ scan = ScanIdle
    /\ rd = <<>>
    /\ ArgsIdle

\* the return statement that ends the call when the rune c, read with the
\* locals s, makes the loop return: "bracket" is the return of the bracket
\* branch, "space" and "quote" are the two returns of the other branch
ReturnOf(s, c) ==
    IF Len(s.brackets) > 0 THEN "bracket"
    ELSE IF IsSpace(c) /\ s.quote = NO_QUOTE THEN "space"
    ELSE "quote"

\* what a call that returns leaves in hist: the input it started with, the
\* runes it read, the returned values, the return statement taken and the
\* locals at the return
Returned(pre, read, r, why, s) ==
    [pre |-> pre, read |-> read, s |-> r.s, delim |-> r.delim,
     err |-> r.err, why |-> why, quote |-> s.quote,
     brackets |-> s.brackets, buf |-> s.buf]

\* the caller enters NextToken
CallNextToken ==
    /\ scan.pc = "idle"
    /\ EOFCalls < MaxEOF
    /\ scan' = ScanInit
    /\ rd' = <<>>
    /\ UNCHANGED <<in, InfieldBrackets, hist, argVars>>

\* one iteration of the loop whose ReadRune succeeds
ReadRune ==
    /\ scan.pc = "scan"
    /\ in # <<>>
    /\ LET c == Head(in)
           n == ScanStep(scan, c, InfieldBrackets)
       IN  IF n.pc = "ret"
           THEN /\ in' = Tail(in)
                /\ rd' = Append(rd, c)
                /\ scan' = [n EXCEPT !.pc = "idle"]
                /\ hist' = Append(hist,
                      Returned(rd \o in, Append(rd, c),
                               [s |-> n.buf, delim |-> n.delim, err |-> Nil],
                               ReturnOf(scan, c), n))
           ELSE IF n.pc = "copy"
           THEN /\ in' = CopyRest(n, Tail(in)).in
                /\ rd' = rd \o in
                /\ scan' = [n EXCEPT !.buf = CopyRest(n, Tail(in)).s,
                                     !.pc = "idle"]
                /\ hist' = Append(hist,
                      Returned(rd \o in, rd \o in, CopyRest(n, Tail(in)),
                               "copy", n))
           ELSE /\ in' = Tail(in)
                /\ rd' = Append(rd, c)
                /\ scan' = n
                /\ hist' = hist
    /\ UNCHANGED <<InfieldBrackets, argVars>>

\* the iteration of the loop whose ReadRune fails with io.EOF
ReadEOF ==
    /\ scan.pc = "scan"
    /\ in = <<>>
    /\ scan' = [scan EXCEPT !.pc = "idle"]
    /\ hist' = Append(hist, Returned(rd, rd, AtEOF(scan), "eof", scan))
    /\ UNCHANGED <<in, rd, InfieldBrackets, argVars>>

NextScan == CallNextToken \/ ReadRune \/ ReadEOF

SpecScan == InitScan /\ [][NextScan]_vars

----------------------------------------------------------------------------
(* Scanner.getTokens and the package functions built on it. *)

\* strings.TrimSpace
RECURSIVE TrimRight(_)
TrimRight(t) ==
    IF t # <<>> /\ IsSpace(t[Len(t)])
    THEN TrimRight(SubSeq(t, 1, Len(t) - 1))
    ELSE t

RECURSIVE TrimLeftSpace(_)
TrimLeftSpace(t) ==
    IF t # <<>> /\ IsSpace(Head(t)) THEN TrimLeftSpace(Tail(t)) ELSE t

TrimSpace(t) == TrimRight(TrimLeftSpace(t))

\* optionSkip without the UnreadRune calls
RECURSIVE optionSkip_NoUnread(_)
optionSkip_NoUnread(input) ==
    IF input = <<>> THEN [kind |-> "eof", in |-> <<>>]
    ELSE IF Head(input) = OPTION_CHAR
    THEN [kind |-> "option", in |-> Tail(input)]
    ELSE IF ~IsSpace(Head(input)) THEN [kind |-> "rest", in |-> Tail(input)]
    ELSE optionSkip_NoUnread(Tail(input))

\* the inner loop of getTokens in option mode: skips whitespace up to the
\* next rune; kind is "eof" when the input ends, "option" when the rune is
\* OPTION_CHAR (unread again), "rest" when it is any other rune (unread
\* again, the remaining input is the rest)
RECURSIVE optionSkip(_)
optionSkip(input) ==
    IF input = <<>> THEN [kind |-> "eof", in |-> <<>>]
    ELSE IF Head(input) = OPTION_CHAR THEN [kind |-> "option", in |-> input]
    ELSE IF ~IsSpace(Head(input)) THEN [kind |-> "rest", in |-> input]
    ELSE optionSkip(Tail(input))

\* the tail of getTokens, after the loop ran max times
ReadRest(tokens, input) ==
    [tokens |-> tokens, rest |-> TrimSpace(input), err |-> Nil, in |-> <<>>]

\* the loop of getTokens from iteration i on
RECURSIVE getTokensLoop(_, _, _, _, _)
getTokensLoop(input, infield, max, i, tokens) ==
    IF ~(max <= 0 \/ i < max)
    THEN ReadRest(tokens, input)
    ELSE LET sk == IF max < 0 THEN optionSkip(input)
                   ELSE [kind |-> "option", in |-> input]
         IN  IF sk.kind = "eof"
             THEN [tokens |-> tokens, rest |-> <<>>, err |-> Nil,
                   in |-> sk.in]
             ELSE IF sk.kind = "rest"
             THEN [tokens |-> tokens, rest |-> sk.in, err |-> Nil,
                   in |-> <<>>]
             ELSE LET r == NextTokenOf(sk.in, infield)
                  IN  IF r.err # Nil
                      THEN [tokens |-> tokens, rest |-> <<>>, err |-> r.err,
                            in |-> r.in]
                      ELSE getTokensLoop(r.in, infield, max, i + 1,
                                         Append(tokens, r.s))

getTokens(input, infield, max) == getTokensLoop(input, infield, max, 0, <<>>)

GetArgs(l, infield) == getTokens(l, infield, 0).tokens

\* TokensForN without the n = n - 1
TokensForN_NoDecrement(n) == n

\* the max that GetArgsN hands to GetTokensN
TokensForN(n) == IF n > 0 THEN n - 1 ELSE n

GetArgsN(l, n, infield) ==
    LET r == getTokens(l, infield, TokensForN(n))
    IN  IF r.rest # <<>> THEN Append(r.tokens, r.rest) ELSE r.tokens

\* GetOptions: the error of GetOptionTokens is dropped
GetOptions(l, infield) ==
    LET r == getTokens(l, infield, 0 - 1)
    IN  [options |-> r.tokens, rest |-> r.rest]

\* strings.HasPrefix(arg, "-")
HasOptionPrefix(arg) == arg # <<>> /\ Head(arg) = OPTION_CHAR

\* TrimLeftDashes that strips one dash only
TrimOneDash(arg) ==
    IF arg # <<>> /\ Head(arg) = OPTION_CHAR THEN Tail(arg) ELSE arg

\* strings.TrimLeft(arg, "-")
RECURSIVE TrimLeftDashes(_)
TrimLeftDashes(arg) ==
    IF arg # <<>> /\ Head(arg) = OPTION_CHAR
    THEN TrimLeftDashes(Tail(arg))
    ELSE arg

\* index of the first "=" of arg, 0 if strings.Contains(arg, "=") is false
FirstEquals(arg) ==
    LET eq == {j \in 1..Len(arg) : arg[j] = EQUALS_CHAR}
    IN  IF eq = {} THEN 0 ELSE CHOOSE j \in eq : \A k \in eq : j <= k

\* parsed.Options[key] = value
SetOption(options, key, value) ==
    [k \in DOMAIN options \cup {key} |->
        IF k = key THEN value ELSE options[k]]

\* the classification of one option token
PutOption(options, arg) ==
    LET a == TrimLeftDashes(arg)
        e == FirstEquals(a)
    IN  IF e > 0
        THEN SetOption(options, SubSeq(a, 1, e - 1), SubSeq(a, e + 1, Len(a)))
        ELSE SetOption(options, a, <<>>)

\* the loop of ParseArgs
RECURSIVE parseLoop(_, _)
parseLoop(args, options) ==
    IF args = <<>>
    THEN [Options |-> options, Arguments |-> args]
    ELSE IF ~HasOptionPrefix(Head(args))
    THEN [Options |-> options, Arguments |-> args]
    ELSE IF Head(args) = <<OPTION_CHAR, OPTION_CHAR>>
    THEN [Options |-> options, Arguments |-> Tail(args)]
    ELSE parseLoop(Tail(args), PutOption(options, Head(args)))

NoOptions == [k \in {} |-> <<>>]

ParseArgsOf(l) == parseLoop(GetArgs(l, FALSE), NoOptions)

IsDigit(c) == c >= 48 /\ c <= 57

RECURSIVE DigitsValue(_)
DigitsValue(d) ==
    IF d = <<>> THEN 0
    ELSE 10 * DigitsValue(SubSeq(d, 1, Len(d) - 1)) + (d[Len(d)] - 48)

\* strconv.Atoi: (n, err == nil); n is 0 on a syntax error.  The values of
\* the model are too short to leave the range of int.
Atoi(v) ==
    LET signed == v # <<>> /\ Head(v) \in {43, 45}
        d == IF signed THEN Tail(v) ELSE v
        ok == d # <<>> /\ \A j \in 1..Len(d) : IsDigit(d[j])
    IN  IF ~ok THEN [n |-> 0, ok |-> FALSE]
        ELSE [n |-> IF signed /\ Head(v) = 45 THEN 0 - DigitsValue(d)
                    ELSE DigitsValue(d),
              ok |-> TRUE]

\* Args.GetIntOption
GetIntOptionOf(a, name, def) ==
    IF name \in DOMAIN a.Options THEN Atoi(a.Options[name]).n ELSE def

----------------------------------------------------------------------------
(* The package functions applied to a line. *)

\* runes of the lines: space, backslash, dash, equals, a letter, a digit,
\* a quote, a bracket and the replacement character
ArgAlphabet == {32, 92, 45, 61, 97, 49, 34, 123, 65533}

\* names and defaults handed to GetIntOption
OptionNames == {<<97>>, <<49>>}
Defaults == {7}

ScannerIdle ==
    /\ in = <<>>
    /\ InfieldBrackets = FALSE
    /\ hist = <<>>
    /\ scan = ScanIdle
    /\ rd = <<>>

InitArgs ==
    /\ line \in StringsUpTo(ArgAlphabet, MaxLine)
    /\ opt \in BOOLEAN
    /\ op = "none"
    /\ argN = 0
    /\ argName = <<>>
    /\ argDef = 0
    /\ retArgs = <<>>
    /\ retInt = 0
    /\ retRest = <<>>
    /\ retErr = Nil
    /\ parsed = [Options |-> NoOptions, Arguments |-> <<>>]
    /\ ScannerIdle

\* the caller either splits the line, any number of times, or parses it
\* and then reads options of the Args it was returned
DoGetArgs ==
    /\ op \notin {"ParseArgs", "GetIntOption"}
    /\ op' = "GetArgs"
    /\ retArgs' = GetArgs(line, opt)
    /\ argN' = 0 /\ argName' = <<>> /\ argDef' = 0 /\ retInt' = 0
    /\ retRest' = <<>> /\ retErr' = Nil
    /\ UNCHANGED <<line, opt, parsed, scanVars>>

DoGetArgsN ==
    \E n \in 0..MaxN :
        /\ op \notin {"ParseArgs", "GetIntOption"}
        /\ op' = "GetArgsN"
        /\ argN' = n
        /\ retArgs' = GetArgsN(line, n, opt)
        /\ argName' = <<>> /\ argDef' = 0 /\ retInt' = 0
        /\ retRest' = <<>> /\ retErr' = Nil
        /\ UNCHANGED <<line, opt, parsed, scanVars>>

DoParseArgs ==
    /\ op' = "ParseArgs"
    /\ parsed' = ParseArgsOf(line)
    /\ retArgs' = <<>>
    /\ argN' = 0 /\ argName' = <<>> /\ argDef' = 0 /\ retInt' = 0
    /\ retRest' = <<>> /\ retErr' = Nil
    /\ UNCHANGED <<line, opt, scanVars>>

DoGetIntOption ==
    \E name \in OptionNames, def \in Defaults :
        /\ op \in {"ParseArgs", "GetIntOption"}
        /\ op' = "GetIntOption"
        /\ argName' = name
        /\ argDef' = def
        /\ retInt' = GetIntOptionOf(parsed, name, def)
        /\ retArgs' = <<>>
        /\ argN' = 0
        /\ retRest' = <<>> /\ retErr' = Nil
        /\ UNCHANGED <<line, opt, parsed, scanVars>>

DoGetOptions ==
    /\ op \notin {"ParseArgs", "GetIntOption"}
    /\ op' = "GetOptions"
    /\ retArgs' = GetOptions(line, opt).options
    /\ retRest' = GetOptions(line, opt).rest
    /\ argN' = 0 /\ argName' = <<>> /\ argDef' = 0 /\ retInt' = 0
    /\ retErr' = Nil
    /\ UNCHANGED <<line, opt, parsed, scanVars>>

NextArgs ==
    \/ DoGetArgs
    \/ DoGetArgsN
    \/ DoParseArgs
    \/ DoGetIntOption
    \/ DoGetOptions

SpecArgs == InitArgs /\ [][NextArgs]_vars

----------------------------------------------------------------------------
(* The token collectors, called on a Scanner: what getTokens leaves unread
   stays in the Scanner for the next call. *)

\* runes of the collected inputs: space, backslash, dash, a quote and a
\* letter
TokenAlphabet == {32, 92, 45, 34, 97}

InitTokens ==
    /\ in \in StringsUpTo(TokenAlphabet, MaxLen)
    /\ InfieldBrackets \in BOOLEAN
    /\ hist = <<>>
    /\ scan = ScanIdle
    /\ rd = <<>>
    /\ ArgsIdle

\* what a collector call leaves alone
CollectorFrame ==
    UNCHANGED <<InfieldBrackets, hist, scan, rd, line, opt, argName, argDef,
                retInt, parsed>>

\* the unread input moves on and the returned tokens and error are
\* recorded; GetTokens drops the rest
GetTokens ==
    /\ op' = "GetTokens"
    /\ argN' = 0
    /\ in' = getTokens(in, InfieldBrackets, 0).in
    /\ retArgs' = getTokens(in, InfieldBrackets, 0).tokens
    /\ retRest' = <<>>
    /\ retErr' = getTokens(in, InfieldBrackets, 0).err
    /\ CollectorFrame

GetTokensN ==
    \E n \in (0 - 1)..MaxN :
        /\ op' = "GetTokensN"
        /\ argN' = n
        /\ in' = getTokens(in, InfieldBrackets, n).in
        /\ retArgs' = getTokens(in, InfieldBrackets, n).tokens
        /\ retRest' = getTokens(in, InfieldBrackets, n).rest
        /\ retErr' = getTokens(in, InfieldBrackets, n).err
        /\ CollectorFrame

GetOptionTokens ==
    /\ op' = "GetOptionTokens"
    /\ argN' = 0
    /\ in' = getTokens(in, InfieldBrackets, 0 - 1).in
    /\ retArgs' = getTokens(in, InfieldBrackets, 0 - 1).tokens
    /\ retRest' = getTokens(in, InfieldBrackets, 0 - 1).rest
    /\ retErr' = getTokens(in, InfieldBrackets, 0 - 1).err
    /\ CollectorFrame

NextTokens ==
    \/ GetTokens
    \/ GetTokensN
    \/ GetOptionTokens

SpecTokens == InitTokens /\ [][NextTokens]_vars

----------------------------------------------------------------------------
(* Reference notions used by the properties. *)

Calls == 1..Len(hist)

\* the input left unread by call i
After(i) == IF i < Len(hist) THEN hist[i + 1].pre ELSE in

AllSpace(t) == \A j \in 1..Len(t) : IsSpace(t[j])

\* t without its leading whitespace
RECURSIVE SkipSpace(_)
SkipSpace(t) ==
    IF t # <<>> /\ IsSpace(Head(t)) THEN SkipSpace(Tail(t)) ELSE t

\* the text a call starts its token at
TokStart(i) == SkipSpace(hist[i].pre)

\* t[j] directly follows an unescaped backslash: the run of backslashes
\* that ends right before position j has odd length
Escaped(t, j) ==
    LET run == {k \in 1..(j - 1) : \A m \in k..(j - 1) : t[m] = ESCAPE_CHAR}
    IN  Cardinality(run) % 2 = 1

\* t[j] is a backslash that escapes what follows it
IsEscape(t, j) == t[j] = ESCAPE_CHAR /\ ~Escaped(t, j)

\* t[j] is read as itself, neither escaping nor escaped
Bare(t, j) == ~Escaped(t, j) /\ t[j] # ESCAPE_CHAR

\* t[lo..hi] with every escaping backslash removed
RECURSIVE Unescape(_, _, _)
Unescape(t, lo, hi) ==
    IF lo > hi THEN <<>>
    ELSE (IF IsEscape(t, lo) THEN <<>> ELSE <<t[lo]>>) \o Unescape(t, lo + 1, hi)

Suffix(t, j) == SubSeq(t, j, Len(t))

OpenBrackets == {123, 91, 40}
CloserOf(c) == CASE c = 123 -> 125 [] c = 91 -> 93 [] c = 40 -> 41

\* position of the closer that ends the bracket region whose pending
\* closers are stack when reading resumes at t[j] (q is the quote open
\* inside the region, 0 if none); 0 when the region is not closed in t
RECURSIVE MatchClose(_, _, _, _)
MatchClose(t, j, stack, q) ==
    IF j > Len(t) THEN 0
    ELSE IF ~Bare(t, j) THEN MatchClose(t, j + 1, stack, q)
    ELSE IF q # 0 THEN MatchClose(t, j + 1, stack, IF t[j] = q THEN 0 ELSE q)
    ELSE IF t[j] = stack[Len(stack)]
    THEN IF Len(stack) = 1 THEN j
         ELSE MatchClose(t, j + 1, SubSeq(stack, 1, Len(stack) - 1), 0)
    ELSE IF t[j] \in QUOTE_CHARS THEN MatchClose(t, j + 1, stack, t[j])
    ELSE IF t[j] \in OpenBrackets
    THEN MatchClose(t, j + 1, Append(stack, CloserOf(t[j])), 0)
    ELSE MatchClose(t, j + 1, stack, 0)

----------------------------------------------------------------------------
(* C1 *)

\* a call made with no unread input, or with only whitespace unread
AtExhaustion(i) == AllSpace(hist[i].pre)

\* C1: a NextToken call made when no unread input, or only whitespace,
\* remains returns the empty token, delimiter 0 and io.EOF; it never
\* returns an empty token with a nil error.
C1_EndOfStream ==
    \A i \in Calls :
        AtExhaustion(i) =>
            hist[i].s = <<>> /\ hist[i].delim = 0 /\ hist[i].err = EOF

\* a final token that no whitespace terminated, followed by the call that
\* reports the end of the stream
C1_Witness ==
    \E i \in Calls :
        /\ i > 1
        /\ hist[i - 1].err = Nil /\ hist[i - 1].s # <<>>
        /\ hist[i - 1].delim = 0
        /\ ~IsSpace(hist[i - 1].pre[Len(hist[i - 1].pre)])
        /\ SkipSpace(hist[i - 1].pre)[1] \notin SYMBOL_CHARS
        /\ hist[i].pre = <<>> /\ hist[i].err = EOF

----------------------------------------------------------------------------
(* C2 *)

\* position in t of the first unescaped occurrence of t[1] after t[1];
\* 0 if there is none
CloseQuote(t) ==
    LET hits == {j \in 2..Len(t) : t[j] = t[1] /\ ~Escaped(t, j)}
    IN  IF hits = {} THEN 0
        ELSE CHOOSE j \in hits : \A k \in hits : j <= k

\* call i starts its token at an unescaped quote that is closed later
QuotedCall(i) ==
    /\ TokStart(i) # <<>>
    /\ TokStart(i)[1] \in QUOTE_CHARS
    /\ CloseQuote(TokStart(i)) > 0

\* call i starts its token at an escaped quote
EscapedQuoteCall(i) ==
    /\ Len(TokStart(i)) >= 2
    /\ TokStart(i)[1] = ESCAPE_CHAR
    /\ TokStart(i)[2] \in QUOTE_CHARS

\* C2: with InfieldBrackets disabled, a token that starts at an unescaped
\* quote q is the text up to the next unescaped q with the escaping
\* backslashes removed, whitespace and the other quotes kept, q itself
\* dropped at both ends, and the delimiter is q; a token that starts with
\* an escaped quote keeps that quote as its first character.
C2_QuotedToken ==
    \A i \in Calls :
        /\ (~InfieldBrackets /\ QuotedCall(i)) =>
              LET t == TokStart(i)
                  k == CloseQuote(t)
              IN  /\ hist[i].err = Nil
                  /\ hist[i].s = Unescape(t, 2, k - 1)
                  /\ hist[i].delim = t[1]
                  /\ After(i) = Suffix(t, k + 1)
        /\ (~InfieldBrackets /\ EscapedQuoteCall(i)) =>
              /\ hist[i].err = Nil
              /\ hist[i].s # <<>>
              /\ hist[i].s[1] = TokStart(i)[2]

\* a quoted token that holds a whitespace and one of the other quotes
C2_Witness ==
    \E i \in Calls :
        /\ ~InfieldBrackets /\ QuotedCall(i)
        /\ \E j \in 1..Len(hist[i].s) : IsSpace(hist[i].s[j])
        /\ \E j \in 1..Len(hist[i].s) :
              hist[i].s[j] \in QUOTE_CHARS \ {hist[i].delim}

----------------------------------------------------------------------------
(* C3 *)

\* call i starts its token at an unescaped opening bracket
BracketCall(i) ==
    /\ TokStart(i) # <<>>
    /\ TokStart(i)[1] \in OpenBrackets

\* position of the closer matching the opening bracket t[1]; 0 if none
RegionEnd(t) == MatchClose(t, 2, <<CloserOf(t[1])>>, 0)

\* C3 as stated: the token is the bracketed input text verbatim, from the
\* opening bracket through its matching closer, and it is the same with
\* InfieldBrackets enabled and disabled.
C3_Verbatim ==
    \A i \in Calls :
        (BracketCall(i) /\ RegionEnd(TokStart(i)) > 0) =>
            /\ hist[i].s = SubSeq(TokStart(i), 1, RegionEnd(TokStart(i)))
            /\ NextTokenOf(hist[i].pre, TRUE) = NextTokenOf(hist[i].pre, FALSE)

\* C3 amended: the token is the bracketed input text from the opening
\* bracket through its matching closer with every escaping backslash
\* dropped (the escaped character is kept and not interpreted), nested
\* brackets, nested quotes and inner whitespace included; the input after
\* the closer stays unread, and the result is the same with
\* InfieldBrackets enabled and disabled.
C3_BracketToken ==
    \A i \in Calls :
        BracketCall(i) =>
            /\ NextTokenOf(hist[i].pre, TRUE) = NextTokenOf(hist[i].pre, FALSE)
            /\ RegionEnd(TokStart(i)) > 0 =>
                  LET t == TokStart(i)
                      m == RegionEnd(t)
                  IN  /\ hist[i].err = Nil
                      /\ hist[i].s = Unescape(t, 1, m)
                      /\ After(i) = Suffix(t, m + 1)

\* a bracket token with a nested bracket or a nested quote in it, and
\* input left after its closer
C3_Witness ==
    \E i \in Calls :
        /\ BracketCall(i) /\ RegionEnd(TokStart(i)) > 0
        /\ \E j \in 2..Len(hist[i].s) :
              hist[i].s[j] \in OpenBrackets \cup QUOTE_CHARS
        /\ hist[i].s = SubSeq(TokStart(i), 1, RegionEnd(TokStart(i)))

----------------------------------------------------------------------------
(* C4 *)

SymbolStarters == {124, 62, 60, 35}

\* call i starts its token at one of | > < #
SymbolCall(i) ==
    /\ TokStart(i) # <<>>
    /\ TokStart(i)[1] \in SymbolStarters

\* C4: a token that starts at one of | > < # is that character followed by
\* all the remaining input verbatim, and every later NextToken call
\* returns io.EOF with no token.
C4_SymbolShortCircuit ==
    \A i \in Calls :
        SymbolCall(i) =>
            /\ hist[i].err = Nil
            /\ hist[i].s = TokStart(i)
            /\ After(i) = <<>>
            /\ \A j \in Calls :
                  j > i => hist[j].err = EOF /\ hist[j].s = <<>>

\* a symbol token that swallowed whitespace and a quote or a backslash,
\* followed by a call
C4_Witness ==
    \E i \in Calls :
        /\ SymbolCall(i)
        /\ i < Len(hist)
        /\ \E j \in 2..Len(hist[i].s) : IsSpace(hist[i].s[j])
        /\ \E j \in 2..Len(hist[i].s) :
              hist[i].s[j] \in QUOTE_CHARS \cup {ESCAPE_CHAR}

----------------------------------------------------------------------------
(* C6 *)

\* position of the first opening bracket of t that is read as a bracket
\* in the middle of an unquoted token that starts at t[1]; 0 if none.
\* The token reaches the bracket when nothing before it ends the token:
\* no whitespace and no rune equal to NO_QUOTE is read as itself there.
InfieldOpen(t) ==
    LET ok == {b \in 2..Len(t) :
                  /\ Bare(t, b) /\ t[b] \in OpenBrackets
                  /\ \A j \in 1..(b - 1) :
                        Bare(t, j) => /\ ~IsSpace(t[j])
                                      /\ t[j] # NO_QUOTE
                                      /\ t[j] \notin OpenBrackets}
    IN  IF ok = {} THEN 0 ELSE CHOOSE b \in ok : TRUE

\* call i reads an unquoted token with an opening bracket after its first
\* character, and the region this bracket opens is closed in the input
InfieldCall(i) ==
    LET t == TokStart(i)
    IN  /\ t # <<>>
        /\ t[1] \notin QUOTE_CHARS \cup OpenBrackets \cup SymbolStarters
        /\ InfieldOpen(t) > 0
        /\ MatchClose(t, InfieldOpen(t) + 1,
                      <<CloserOf(t[InfieldOpen(t)])>>, 0) > 0

\* C6: with InfieldBrackets enabled, an unquoted token with an opening
\* bracket after its first character is one token that runs through the
\* closer that empties the bracket stack: whitespace, = and quotes inside
\* the bracket region do not end it.
C6_InfieldBrackets ==
    \A i \in Calls :
        (InfieldBrackets /\ InfieldCall(i)) =>
            LET t == TokStart(i)
                b == InfieldOpen(t)
                m == MatchClose(t, b + 1, <<CloserOf(t[b])>>, 0)
            IN  /\ hist[i].err = Nil
                /\ hist[i].s = Unescape(t, 1, m)
                /\ After(i) = Suffix(t, m + 1)

\* an in-field bracket region with a whitespace or a quote inside it
C6_Witness ==
    \E i \in Calls :
        /\ InfieldBrackets /\ InfieldCall(i)
        /\ \E j \in (InfieldOpen(TokStart(i)) + 1)..Len(hist[i].s) :
              IsSpace(hist[i].s[j]) \/ hist[i].s[j] \in QUOTE_CHARS
        /\ hist[i].s = SubSeq(TokStart(i), 1, Len(hist[i].s))

----------------------------------------------------------------------------
(* C5 *)

BracketChars == {123, 125, 91, 93, 40, 41}

\* l holds no quote, no bracket and no symbol character
PlainLine(l) ==
    \A j \in 1..Len(l) :
        l[j] \notin QUOTE_CHARS \cup BracketChars \cup SYMBOL_CHARS

\* the fields of t from position lo on: t is cut at every whitespace that
\* is read as itself, the escaping backslashes of a field are removed and
\* the empty fields are dropped
RECURSIVE RefFields(_, _)
RefFields(t, lo) ==
    IF lo > Len(t) THEN <<>>
    ELSE LET seps == {j \in lo..Len(t) : Bare(t, j) /\ IsSpace(t[j])}
             hi == IF seps = {} THEN Len(t) + 1
                   ELSE CHOOSE j \in seps : \A k \in seps : j <= k
             f == Unescape(t, lo, hi - 1)
         IN  (IF f = <<>> THEN <<>> ELSE <<f>>) \o RefFields(t, hi + 1)

\* C5: for every line without quote, bracket and symbol characters,
\* GetArgs(line) is the line split on unescaped whitespace, with every
\* escaping backslash removed, the escaped character kept as text and the
\* empty fields dropped.
C5_SplitEquivalence ==
    (op = "GetArgs" /\ PlainLine(line)) => retArgs = RefFields(line, 1)

----------------------------------------------------------------------------
(* C7 *)

\* index of the token that stops the option consumption: the first token
\* that is "--" or does not start with a dash; Len(toks) + 1 if none
RefStop(toks) ==
    LET stops == {k \in 1..Len(toks) :
                     \/ toks[k] = <<45, 45>>
                     \/ toks[k] = <<>>
                     \/ toks[k][1] # 45}
    IN  IF stops = {} THEN Len(toks) + 1
        ELSE CHOOSE k \in stops : \A m \in stops : k <= m

\* tok without its leading dashes
RefBody(tok) ==
    LET nd == {j \in 1..Len(tok) : tok[j] # 45}
    IN  IF nd = {} THEN <<>>
        ELSE SubSeq(tok, CHOOSE j \in nd : \A k \in nd : j <= k, Len(tok))

RefEq(b) == {j \in 1..Len(b) : b[j] = 61 /\ \A k \in 1..(j - 1) : b[k] # 61}

RefKey(tok) ==
    LET b == RefBody(tok)
    IN  IF RefEq(b) = {} THEN b
        ELSE SubSeq(b, 1, (CHOOSE j \in RefEq(b) : TRUE) - 1)

RefValue(tok) ==
    LET b == RefBody(tok)
    IN  IF RefEq(b) = {} THEN <<>>
        ELSE SubSeq(b, (CHOOSE j \in RefEq(b) : TRUE) + 1, Len(b))

\* the options of the tokens before the stop: the last token of a key wins
RefOptions(toks) ==
    LET n == RefStop(toks) - 1
    IN  [key \in {RefKey(toks[j]) : j \in 1..n} |->
            RefValue(toks[CHOOSE j \in 1..n :
                            /\ RefKey(toks[j]) = key
                            /\ \A k \in (j + 1)..n : RefKey(toks[k]) # key])]

\* the tokens from the stop on, without the stop itself when it is "--"
RefArguments(toks) ==
    LET k == RefStop(toks)
    IN  IF k <= Len(toks) /\ toks[k] = <<45, 45>>
        THEN SubSeq(toks, k + 1, Len(toks))
        ELSE SubSeq(toks, k, Len(toks))

\* C7: ParseArgs(line) is the reference classification of GetArgs(line):
\* the leading dash tokens become options (dashes stripped, split at the
\* first =, a later key overwrites), the first "--" stops and is
\* discarded, the first token without a dash stops, and Arguments is the
\* unconsumed suffix of the tokens.
C7_ParseArgs ==
    op = "ParseArgs" =>
        /\ parsed.Options = RefOptions(GetArgs(line, FALSE))
        /\ parsed.Arguments = RefArguments(GetArgs(line, FALSE))

\* a "--" that was discarded in front of an argument that starts with a dash
C7_Witness ==
    /\ op = "ParseArgs"
    /\ Len(GetArgs(line, FALSE)) = 2
    /\ GetArgs(line, FALSE)[1] = <<45, 45>>
    /\ Len(parsed.Arguments) = 1
    /\ parsed.Arguments[1][1] = 45

----------------------------------------------------------------------------
(* C8 *)

\* C8: GetIntOption(name, def) is def when the option is absent and when
\* its value does not parse as an integer, and the parsed integer otherwise.
C8_IntOptionDefault ==
    op = "GetIntOption" =>
        retInt = IF /\ argName \in DOMAIN parsed.Options
                    /\ Atoi(parsed.Options[argName]).ok
                 THEN Atoi(parsed.Options[argName]).n
                 ELSE argDef

----------------------------------------------------------------------------
(* C9 *)

\* C9: for every n >= 1, GetArgsN(line, n) has at most n elements.
C9_AtMostN ==
    (op = "GetArgsN" /\ argN >= 1) => Len(retArgs) <= argN

----------------------------------------------------------------------------
(* C10 *)

\* the input left unread after k NextToken calls on input
RECURSIVE UnreadAfter(_, _, _)
UnreadAfter(input, k, infield) ==
    IF k = 0 THEN input
    ELSE UnreadAfter(NextTokenOf(input, infield).in, k - 1, infield)

\* t without the whitespace around it
Trimmed(t) ==
    LET solid == {j \in 1..Len(t) : ~IsSpace(t[j])}
    IN  IF solid = {} THEN <<>>
        ELSE SubSeq(t, CHOOSE j \in solid : \A k \in solid : j <= k,
                       CHOOSE j \in solid : \A k \in solid : j >= k)

\* C10: for n >= 2 and a line of at least n-1 tokens, GetArgsN(line, n)
\* starts with the first n-1 tokens of GetArgs(line), and the input left
\* after them, trimmed of the whitespace around it, is appended as one raw
\* last element exactly when it is not empty.
C10_TokensAndRemainder ==
    (op = "GetArgsN" /\ argN >= 2 /\ Len(GetArgs(line, opt)) >= argN - 1) =>
        LET rem == Trimmed(UnreadAfter(line, argN - 1, opt))
        IN  retArgs = SubSeq(GetArgs(line, opt), 1, argN - 1)
                        \o (IF rem = <<>> THEN <<>> ELSE <<rem>>)

\* a remainder that keeps a quote or a backslash of the input
C10_Witness ==
    /\ op = "GetArgsN" /\ argN = 2
    /\ Len(retArgs) = 2
    /\ retArgs[1] # <<>>
    /\ \E j \in 1..Len(retArgs[2]) :
          retArgs[2][j] \in QUOTE_CHARS \cup {ESCAPE_CHAR}
    /\ retArgs[2] = SubSeq(line, Len(line) - Len(retArgs[2]) + 1, Len(line))

----------------------------------------------------------------------------
(* C11 *)

\* the text the (k+1)-th token of l starts at
StartOfToken(l, k, infield) == SkipSpace(UnreadAfter(l, k, infield))

\* the number of leading tokens of l that start at a dash
LeadingOptions(l, infield) ==
    LET ks == {k \in 0..Len(l) :
                  \/ StartOfToken(l, k, infield) = <<>>
                  \/ StartOfToken(l, k, infield)[1] # 45}
    IN  CHOOSE k \in ks : \A m \in ks : k <= m

\* C11: GetOptions(line) returns as options the maximal leading run of
\* tokens that start at a dash (each of them begins with a dash, "--" is
\* one of them and stops nothing), and as rest the raw input from the
\* first token start that is not a dash on, trailing whitespace kept; rest
\* is empty when the input ends first.
C11_GetOptions ==
    op = "GetOptions" =>
        LET k == LeadingOptions(line, opt)
        IN  /\ Len(GetArgs(line, opt)) >= k
            /\ retArgs = SubSeq(GetArgs(line, opt), 1, k)
            /\ \A j \in 1..Len(retArgs) :
                  retArgs[j] # <<>> /\ retArgs[j][1] = 45
            /\ retRest = StartOfToken(line, k, opt)

\* a "--" among the options with another option after it
C11_Witness ==
    /\ op = "GetOptions"
    /\ \E j \in 1..(Len(retArgs) - 1) : retArgs[j] = <<45, 45>>

----------------------------------------------------------------------------
(* C12 *)

\* call i met the end of the input with a top-level quote or a bracket
\* region open and at least one character buffered
OpenAtEOF(i) ==
    /\ hist[i].why = "eof"
    /\ hist[i].quote # NO_QUOTE \/ hist[i].brackets # <<>>
    /\ hist[i].buf # <<>>

\* C12: when the input ends while a top-level quote or a bracket region is
\* open and something is buffered, NextToken returns the buffered
\* characters as a token with a nil error, and the call after it returns
\* io.EOF with no token.
C12_OpenAtEOF ==
    \A i \in Calls :
        OpenAtEOF(i) =>
            /\ hist[i].err = Nil
            /\ hist[i].s = hist[i].buf
            /\ BracketCall(i) =>
                  hist[i].s = Unescape(TokStart(i), 1, Len(TokStart(i)))
            /\ hist[i].brackets = <<>> =>
                  /\ TokStart(i)[1] = hist[i].quote
                  /\ hist[i].s = Unescape(TokStart(i), 2, Len(TokStart(i)))
            /\ i < Len(hist) =>
                  /\ hist[i + 1].err = EOF
                  /\ hist[i + 1].s = <<>>
                  /\ hist[i + 1].delim = 0

\* a token cut by the end of the input inside a quote inside a bracket
\* region, and the call after it
C12_Witness ==
    \E i \in Calls :
        /\ OpenAtEOF(i)
        /\ hist[i].quote # NO_QUOTE /\ hist[i].brackets # <<>>
        /\ i < Len(hist)

----------------------------------------------------------------------------
(* C13 *)

\* C13: the delimiter returned with a nil error is a whitespace, the quote
\* that opened and closed the token, the opening bracket the token starts
\* with, or 0.
C13_Delimiters ==
    \A i \in Calls :
        hist[i].err = Nil =>
            \/ hist[i].delim = 0
            \/ IsSpace(hist[i].delim)
            \/ /\ hist[i].delim \in QUOTE_CHARS
               /\ TokStart(i)[1] = hist[i].delim
            \/ /\ hist[i].delim \in OpenBrackets
               /\ TokStart(i)[1] = hist[i].delim

----------------------------------------------------------------------------
(* C14 *)

StartDelim(i) == IF BracketCall(i) THEN TokStart(i)[1] ELSE 0

----------------------------------------------------------------------------
(* C15 *)

\* the bracket regions of the runes r[1..j] that one call has read, told
\* from the text: stack holds, in opening order, the closers of the opening
\* brackets read unquoted and unescaped that are not matched yet, top is
\* the top-level quote the token was opened with (0 if none), q the quote
\* open inside the bracket region (0 if none), started tells whether the
\* token has begun.  An opening bracket in the middle of a token outside
\* of any region counts only with infield.
RECURSIVE RefRegion(_, _, _)
RefRegion(r, j, infield) ==
    IF j = 0
    THEN [stack |-> <<>>, top |-> 0, q |-> 0, started |-> FALSE]
    ELSE LET p == RefRegion(r, j - 1, infield)
             c == r[j]
             push == [p EXCEPT !.started = TRUE,
                               !.stack = Append(@, CloserOf(c))]
         IN  IF ~Bare(r, j) THEN [p EXCEPT !.started = TRUE]
             ELSE IF ~p.started
             THEN IF IsSpace(c) THEN p
                  ELSE IF c \in QUOTE_CHARS
                  THEN [p EXCEPT !.started = TRUE, !.top = c]
                  ELSE IF c \in OpenBrackets THEN push
                  ELSE [p EXCEPT !.started = TRUE]
             ELSE IF p.stack = <<>>
             THEN IF p.top = 0 /\ infield /\ c \in OpenBrackets
                  THEN push ELSE p
             ELSE IF p.q # 0
             THEN IF c = p.q THEN [p EXCEPT !.q = 0] ELSE p
             ELSE IF c = p.stack[Len(p.stack)]
             THEN [p EXCEPT !.stack = SubSeq(@, 1, Len(@) - 1)]
             ELSE IF c \in QUOTE_CHARS THEN [p EXCEPT !.q = c]
             ELSE IF c \in OpenBrackets THEN push
             ELSE p

RefStack(r, infield) == RefRegion(r, Len(r), infield).stack

\* the last rune of r took the stack from depth 1 to depth 0
ClosesRegion(r, infield) ==
    /\ r # <<>>
    /\ Len(RefStack(SubSeq(r, 1, Len(r) - 1), infield)) = 1
    /\ RefStack(r, infield) = <<>>

\* C15: while a call scans, the bracket stack holds, in opening order,
\* exactly the closers of the opening brackets read unquoted and unescaped
\* that are not matched yet (a closer that is not the top and a bracket
\* inside a quote change nothing), and the call returns at its bracket
\* return exactly at the rune that takes the stack from depth 1 to 0.
C15_BracketStack ==
    /\ scan.pc = "scan" =>
          /\ scan.brackets = RefStack(rd, InfieldBrackets)
          /\ ~ClosesRegion(rd, InfieldBrackets)
    /\ \A i \in Calls :
          hist[i].why # "copy" =>
              (hist[i].why = "bracket"
                  <=> ClosesRegion(hist[i].read, InfieldBrackets))

----------------------------------------------------------------------------
(* C16 *)

\* position of the first whitespace of t after position b that is read as
\* itself, with no rune equal to NO_QUOTE read as itself in between; 0 if
\* there is none
SpaceAfter(t, b) ==
    LET ws == {w \in (b + 1)..Len(t) :
                  /\ Bare(t, w) /\ IsSpace(t[w])
                  /\ \A j \in (b + 1)..(w - 1) :
                        Bare(t, j) => ~IsSpace(t[j]) /\ t[j] # NO_QUOTE}
    IN  IF ws = {} THEN 0 ELSE CHOOSE w \in ws : TRUE

\* call i reads an unquoted token with an opening bracket after its first
\* character and a whitespace after that bracket
BracketThenSpace(i) ==
    LET t == TokStart(i)
    IN  /\ t # <<>>
        /\ t[1] \notin QUOTE_CHARS \cup OpenBrackets \cup SymbolStarters
        /\ InfieldOpen(t) > 0
        /\ SpaceAfter(t, InfieldOpen(t)) > 0

\* C16: with InfieldBrackets disabled the bracket stack is non-empty only
\* in a token that starts at an opening bracket; an opening bracket read
\* later is an ordinary character, so the whitespace after it ends the
\* token; a bracket at the start of a token opens a region with
\* InfieldBrackets enabled and disabled.
C16_NoInfieldRegion ==
    /\ (~InfieldBrackets /\ scan.brackets # <<>>) =>
          /\ SkipSpace(rd) # <<>>
          /\ SkipSpace(rd)[1] \in OpenBrackets
    /\ (scan.pc = "scan" /\ Len(SkipSpace(rd)) = 1
            /\ SkipSpace(rd)[1] \in OpenBrackets) =>
          scan.brackets = <<CloserOf(SkipSpace(rd)[1])>>
    /\ \A i \in Calls :
          (~InfieldBrackets /\ BracketThenSpace(i)) =>
              LET t == TokStart(i)
                  w == SpaceAfter(t, InfieldOpen(t))
              IN  /\ hist[i].why = "space"
                  /\ hist[i].brackets = <<>>
                  /\ hist[i].s = Unescape(t, 1, w - 1)
                  /\ hist[i].delim = t[w]

\* with InfieldBrackets disabled, a token ended by the whitespace that
\* follows an opening bracket in its middle
C16_Witness ==
    \E i \in Calls :
        /\ ~InfieldBrackets /\ BracketThenSpace(i)
        /\ hist[i].why = "space"
        /\ \E j \in 2..Len(hist[i].s) : hist[i].s[j] \in OpenBrackets

----------------------------------------------------------------------------
(* C17 *)

\* the number of backslashes of t
Backslashes(t) == Cardinality({j \in 1..Len(t) : t[j] = ESCAPE_CHAR})

\* the number of backslashes of r that directly follow an unescaped
\* backslash
EscapedBackslashes(r) ==
    Cardinality({j \in 1..Len(r) : r[j] = ESCAPE_CHAR /\ Escaped(r, j)})

\* the locals other than first and escape are left alone, and the call
\* goes on reading
Uninterpreted ==
    /\ scan'.quote = scan.quote
    /\ scan'.brackets = scan.brackets
    /\ scan'.delim = scan.delim
    /\ scan'.pc = "scan"
    /\ hist' = hist

\* what reading the next rune does around an escape: the rune after an
\* unescaped backslash is appended and nothing else happens, an unescaped
\* backslash is not appended
EscapeStep ==
    (scan.pc = "scan" /\ in # <<>>) =>
        /\ scan.escape =>
              /\ scan'.buf = Append(scan.buf, Head(in))
              /\ ~scan'.escape
              /\ Uninterpreted
        /\ (~scan.escape /\ Head(in) = ESCAPE_CHAR) =>
              /\ scan'.buf = scan.buf
              /\ scan'.escape
              /\ Uninterpreted

\* escape is set exactly after an unescaped backslash, whatever the mode,
\* and the buffer holds no backslash but the escaped ones
EscapeState ==
    scan.pc = "scan" =>
        /\ scan.escape <=> (rd # <<>> /\ IsEscape(rd, Len(rd)))
        /\ Backslashes(scan.buf) = EscapedBackslashes(rd)

\* C17 as stated, its last clause: a backslash is in a returned token only
\* when it was itself escaped.
C17_OnlyEscapedBackslashes ==
    \A i \in Calls :
        hist[i].err = Nil =>
            Backslashes(hist[i].s) = EscapedBackslashes(hist[i].read)

\* C17 amended: in every scanning mode the rune after an unescaped
\* backslash is appended with no interpretation and an unescaped backslash
\* is not appended; a backslash is in a returned token only when it was
\* itself escaped, except in a token that starts at a symbol character,
\* which holds the rest of the input verbatim.
C17_Escape ==
    /\ [](EscapeState
          /\ \A i \in Calls :
                (hist[i].err = Nil /\ hist[i].why # "copy") =>
                    Backslashes(hist[i].s) = EscapedBackslashes(hist[i].read))
    /\ [][EscapeStep]_vars

\* inside a bracket region, an escaped closer that was appended without
\* closing the region
C17_Witness ==
    /\ scan.pc = "scan"
    /\ scan.brackets # <<>>
    /\ Len(rd) >= 2
    /\ Escaped(rd, Len(rd))
    /\ rd[Len(rd)] = scan.brackets[Len(scan.brackets)]
    /\ scan.buf[Len(scan.buf)] = rd[Len(rd)]

----------------------------------------------------------------------------
(* C18 *)

\* the calls that returned a token
TokenCalls == {i \in Calls : hist[i].err = Nil}

\* a call with a nil error consumed at least one rune, so no more tokens
\* were returned than the input has runes; after an io.EOF every call
\* returns io.EOF with no token and nothing is left to read
Draining ==
    /\ \A i \in Calls :
          /\ hist[i].err \in {Nil, EOF}
          /\ hist[i].err = Nil => Len(After(i)) < Len(hist[i].pre)
          /\ hist[i].err = EOF =>
                /\ After(i) = <<>>
                /\ \A j \in Calls :
                      j > i => hist[j].err = EOF /\ hist[j].s = <<>>
    /\ hist # <<>> => Cardinality(TokenCalls) <= Len(hist[1].pre)

\* C18: every NextToken call that returns a nil error consumes at least
\* one input character, so a caller that repeats NextToken is eventually
\* returned io.EOF; once a call has returned io.EOF, every later call
\* returns io.EOF with no token.
C18_Drains ==
    /\ []Draining
    /\ <>(\E i \in Calls : hist[i].err = EOF)

\* two tokens were drained, then io.EOF was returned twice
C18_Witness ==
    /\ Len(hist) >= 4
    /\ hist[Len(hist) - 3].err = Nil
    /\ hist[Len(hist) - 2].err = Nil
    /\ hist[Len(hist) - 1].err = EOF
    /\ hist[Len(hist)].err = EOF

----------------------------------------------------------------------------
(* C19 *)

\* C19: for a token whose first non-whitespace character is a quote
\* character, NextToken returns the same text and delimiter and leaves the
\* same input unread with InfieldBrackets set as with it unset.
C19_QuotedInfield ==
    \A i \in Calls :
        (TokStart(i) # <<>> /\ TokStart(i)[1] \in QUOTE_CHARS) =>
            LET r == NextTokenOf(hist[i].pre, ~InfieldBrackets)
            IN  /\ hist[i].s = r.s
                /\ hist[i].delim = r.delim
                /\ hist[i].err = r.err
                /\ After(i) = r.in

----------------------------------------------------------------------------
(* C20 *)

\* C20: GetTokens, GetTokensN(n) and GetOptionTokens return a nil error,
\* also when the input is exhausted before n tokens were collected.
C20_NilError ==
    op \in {"GetTokens", "GetTokensN", "GetOptionTokens"} => retErr = Nil

====
